---- MODULE Spec2Model ----
(***************************************************************************)
(* Model of the tokenizer (personal/tokenizerCommented.py) and of the      *)
(* recursive-descent parser (personal/parserCommented.py).                 *)
(*                                                                         *)
(* A Python string is a sequence of one-character strings.  A position is  *)
(* zero-based as in the code, so characters[position] of the code is       *)
(* characters[position + 1] here.  Python's None is the record None as a   *)
(* value and the reserved string NoneTag as a tag (no rule of the pattern  *)
(* table has that tag).  A raised exception is a result record with        *)
(* ok = FALSE and the exception's kind and message arguments.              *)
(***************************************************************************)
EXTENDS Integers, Sequences, FiniteSets, TLC

\* characters  the text given to tokenize
\* pc          "start", then "tokenized" or "raised", then "done"
\* position    tokenize's local position when it returned or raised
\* tokens      the list tokenize returned (empty while nothing is returned)
\* raised      the message of the exception tokenize raised, if any
\* fn, out     the parser function applied to tokens and its result
VARIABLES characters, pc, position, tokens, raised, fn, out

vars == <<characters, pc, position, tokens, raised, fn, out>>

----------------------------------------------------------------------------
(* Bounds of the input sets.                                               *)

MaxLexPieces == 4
MaxParsePieces == 4
MaxArithPieces == 5

----------------------------------------------------------------------------
(* Python values.                                                          *)

None == [type |-> "NoneType"]
NoneTag == "None"
PyStr(text) == [type |-> "str", s |-> text]
PyInt(n) == [type |-> "int", n |-> n]
PyFloat(num, den) == [type |-> "float", num |-> num, den |-> den]

----------------------------------------------------------------------------
(* Character classes of the regular expressions (ASCII).                   *)

Digit == {"0", "1", "2", "3", "4", "5", "6", "7", "8", "9"}

Lower == {"a", "b", "c", "d", "e", "f", "g", "h", "i", "j", "k", "l", "m",
          "n", "o", "p", "q", "r", "s", "t", "u", "v", "w", "x", "y", "z"}

Upper == {"A", "B", "C", "D", "E", "F", "G", "H", "I", "J", "K", "L", "M",
          "N", "O", "P", "Q", "R", "S", "T", "U", "V", "W", "X", "Y", "Z"}

IdentStart == Lower \cup Upper \cup {"_"}

IdentPart == IdentStart \cup Digit

Whitespace == {" ", "\t", "\n", "\r", "\f"}

NoMatch == -1

\* Length of the longest run of characters of class C starting at position p
\* (a greedy C* of the regular expression engine).
RECURSIVE RunLen(_, _, _)
RunLen(s, p, C) ==
    IF p < Len(s) /\ s[p + 1] \in C THEN 1 + RunLen(s, p + 1, C) ELSE 0

\* A literal pattern such as r"print", r"\+": match.end() or NoMatch.
MatchLiteral(s, p, lit) ==
    IF p + Len(lit) <= Len(s) /\ SubSeq(s, p + 1, p + Len(lit)) = lit
    THEN p + Len(lit)
    ELSE NoMatch

\* r"\d*\.\d+|\d+\.\d*|\d+": the alternatives are tried in order, each greedy.
MatchNumber(s, p) ==
    LET d1 == RunLen(s, p, Digit)
        hasDot == p + d1 < Len(s) /\ s[p + d1 + 1] = "."
        d2 == IF hasDot THEN RunLen(s, p + d1 + 1, Digit) ELSE 0
    IN  IF hasDot /\ d2 >= 1 THEN p + d1 + 1 + d2
        ELSE IF d1 >= 1 /\ hasDot THEN p + d1 + 1 + d2
        ELSE IF d1 >= 1 THEN p + d1
        ELSE NoMatch

\* r"[a-zA-Z_][a-zA-Z0-9_]*"
MatchIdentifier(s, p) ==
    IF p < Len(s) /\ s[p + 1] \in IdentStart
    THEN p + 1 + RunLen(s, p + 1, IdentPart)
    ELSE NoMatch

\* r"\s+"
MatchWhitespace(s, p) ==
    LET n == RunLen(s, p, Whitespace) IN IF n >= 1 THEN p + n ELSE NoMatch

\* r".": any character except a newline.
MatchAny(s, p) ==
    IF p < Len(s) /\ s[p + 1] # "\n" THEN p + 1 ELSE NoMatch

\* The ordered rule table.
patterns ==
    << [re |-> "literal", lit |-> <<"p", "r", "i", "n", "t">>, tag |-> "print"],
       [re |-> "number", lit |-> <<>>, tag |-> "number"],
       [re |-> "identifier", lit |-> <<>>, tag |-> "identifier"],
       [re |-> "literal", lit |-> <<"+">>, tag |-> "+"],
       [re |-> "literal", lit |-> <<"-">>, tag |-> "-"],
       [re |-> "literal", lit |-> <<"*">>, tag |-> "*"],
       [re |-> "literal", lit |-> <<"/">>, tag |-> "/"],
       [re |-> "literal", lit |-> <<"(">>, tag |-> "("],
       [re |-> "literal", lit |-> <<")">>, tag |-> ")"],
       [re |-> "whitespace", lit |-> <<>>, tag |-> "whitespace"],
       [re |-> "any", lit |-> <<>>, tag |-> "error"] >>

\* pattern.match(characters, position): match.end(), or NoMatch for None.
Match(pattern, s, p) ==
    CASE pattern.re = "literal" -> MatchLiteral(s, p, pattern.lit)
      [] pattern.re = "number" -> MatchNumber(s, p)
      [] pattern.re = "identifier" -> MatchIdentifier(s, p)
      [] pattern.re = "whitespace" -> MatchWhitespace(s, p)
      [] pattern.re = "any" -> MatchAny(s, p)

\* The for loop with its break: the index of the first rule that matches at p,
\* or Len(patterns) with no match when the loop runs to its end.
FirstMatch(s, p) ==
    LET hits == {i \in 1..Len(patterns) : Match(patterns[i], s, p) # NoMatch}
    IN  IF hits = {} THEN [i |-> Len(patterns), end |-> NoMatch]
        ELSE LET i == CHOOSE k \in hits : \A j \in hits : k <= j
             IN  [i |-> i, end |-> Match(patterns[i], s, p)]

----------------------------------------------------------------------------
(* Decoding of numeric literals: int(text) and float(text).                *)

DigitValue(c) ==
    CASE c = "0" -> 0 [] c = "1" -> 1 [] c = "2" -> 2 [] c = "3" -> 3
      [] c = "4" -> 4 [] c = "5" -> 5 [] c = "6" -> 6 [] c = "7" -> 7
      [] c = "8" -> 8 [] c = "9" -> 9

RECURSIVE IntOf(_)
IntOf(text) ==
    IF text = <<>> THEN 0
    ELSE 10 * IntOf(SubSeq(text, 1, Len(text) - 1)) + DigitValue(text[Len(text)])

RECURSIVE Pow10(_)
Pow10(n) == IF n = 0 THEN 1 ELSE 10 * Pow10(n - 1)

RECURSIVE Gcd(_, _)
Gcd(a, b) == IF b = 0 THEN a ELSE Gcd(b, a % b)

\* float(text) as the rational it denotes, in lowest terms.
FloatOf(text) ==
    LET dot == CHOOSE i \in 1..Len(text) : text[i] = "."
        digits == SubSeq(text, 1, dot - 1) \o SubSeq(text, dot + 1, Len(text))
        num == IntOf(digits)
        den == Pow10(Len(text) - dot)
        g == Gcd(den, num)
    IN  PyFloat(num \div g, den \div g)

\* Lines 43-53: the value of a token from the matched text.
TokenValue(tag, text) ==
    IF tag = "number"
    THEN IF \E i \in 1..Len(text) : text[i] = "." THEN FloatOf(text)
         ELSE PyInt(IntOf(text))
    ELSE PyStr(text)

\* The end marker placed on the last character instead of after it.
EndMarker_onLast(p) == [tag |-> NoneTag, value |-> None, position |-> p - 1]

\* Lines 60-64: the end-of-stream marker.
EndMarker(p) == [tag |-> NoneTag, value |-> None, position |-> p]

RECURSIVE Scan(_, _, _)

\* Scan with the raise on the "error" tag left out: the character becomes a token.
Scan_noRaise(s, p, toks) ==
    IF p < Len(s)
    THEN LET m == FirstMatch(s, p)
             tag == patterns[m.i].tag
         IN  IF m.end = NoMatch
             THEN [ok |-> FALSE, raised |-> "AssertionError", position |-> p,
                   tokens |-> <<>>]
             ELSE LET token == [tag |-> tag, position |-> p,
                                value |-> TokenValue(tag, SubSeq(s, p + 1, m.end))]
                  IN  Scan(s, m.end,
                           IF tag # "whitespace" THEN Append(toks, token) ELSE toks)
    ELSE [ok |-> TRUE, raised |-> "", position |-> p,
          tokens |-> Append(toks, EndMarker(p))]

\* Scan with the whitespace filter left out: every token is appended.
Scan_keepWhitespace(s, p, toks) ==
    IF p < Len(s)
    THEN LET m == FirstMatch(s, p)
             tag == patterns[m.i].tag
         IN  IF m.end = NoMatch
             THEN [ok |-> FALSE, raised |-> "AssertionError", position |-> p,
                   tokens |-> <<>>]
             ELSE IF tag = "error"
             THEN [ok |-> FALSE, raised |-> "Syntax error", position |-> p,
                   tokens |-> <<>>]
             ELSE LET token == [tag |-> tag, position |-> p,
                                value |-> TokenValue(tag, SubSeq(s, p + 1, m.end))]
                  IN  Scan(s, m.end, Append(toks, token))
    ELSE [ok |-> TRUE, raised |-> "", position |-> p,
          tokens |-> Append(toks, EndMarker(p))]

\* The while loop of tokenize from a position with the tokens collected so far.
Scan(s, p, toks) ==
    IF p < Len(s)
    THEN LET m == FirstMatch(s, p)
             tag == patterns[m.i].tag
         IN  IF m.end = NoMatch
             THEN [ok |-> FALSE, raised |-> "AssertionError", position |-> p,
                   tokens |-> <<>>]
             ELSE IF tag = "error"
             THEN [ok |-> FALSE, raised |-> "Syntax error", position |-> p,
                   tokens |-> <<>>]
             ELSE LET token == [tag |-> tag, position |-> p,
                                value |-> TokenValue(tag, SubSeq(s, p + 1, m.end))]
                  IN  Scan(s, m.end,
                           IF tag # "whitespace" THEN Append(toks, token) ELSE toks)
    ELSE [ok |-> TRUE, raised |-> "", position |-> p,
          tokens |-> Append(toks, EndMarker(p))]

tokenize(s) == Scan(s, 0, <<>>)

----------------------------------------------------------------------------
(* The parser.  A grammar function returns Return(ast, tokens) or raises.  *)

Return(ast, toks) == [ok |-> TRUE, ast |-> ast, tokens |-> toks]

\* raise Exception(f"Unexpected token '{tag}' at position {position}.")
Unexpected(token) ==
    [ok |-> FALSE, raised |-> "Exception", tag |-> token.tag,
     position |-> token.position]

\* A failed assert statement: AssertionError with no message.
AssertionError == [ok |-> FALSE, raised |-> "AssertionError"]

\* tokens[0] of an empty list.
IndexError == [ok |-> FALSE, raised |-> "IndexError"]

\* The slice tokens[1:], which is empty for an empty list.
Slice1(toks) == IF toks = <<>> THEN <<>> ELSE Tail(toks)

RECURSIVE parse_factor(_), parse_term(_), parse_expression(_)
RECURSIVE term_loop(_, _), expression_loop(_, _)

\* parse_factor with the check of the closing parenthesis left out.
parse_factor_noCheck(toks) ==
    IF toks = <<>> THEN IndexError
    ELSE LET token == toks[1]
         IN  IF token.tag = "number"
             THEN Return([tag |-> "number", value |-> token.value], Slice1(toks))
             ELSE IF token.tag = "("
             THEN LET r == parse_expression(Slice1(toks))
                  IN  IF ~r.ok THEN r
                      ELSE Return(r.ast, Slice1(r.tokens))
             ELSE Unexpected(token)

\* parse_factor with the <identifier> alternative of the grammar comment.
parse_factor_identifier(toks) ==
    IF toks = <<>> THEN IndexError
    ELSE LET token == toks[1]
         IN  IF token.tag \in {"number", "identifier"}
             THEN Return([tag |-> token.tag, value |-> token.value], Slice1(toks))
             ELSE IF token.tag = "("
             THEN LET r == parse_expression(Slice1(toks))
                  IN  IF ~r.ok THEN r
                      ELSE IF r.tokens = <<>> THEN IndexError
                      ELSE IF r.tokens[1].tag # ")" THEN AssertionError
                      ELSE Return(r.ast, Slice1(r.tokens))
             ELSE Unexpected(token)

parse_factor(toks) ==
    IF toks = <<>> THEN IndexError
    ELSE LET token == toks[1]
         IN  IF token.tag = "number"
             THEN Return([tag |-> "number", value |-> token.value], Slice1(toks))
             ELSE IF token.tag = "("
             THEN LET r == parse_expression(Slice1(toks))
                  IN  IF ~r.ok THEN r
                      ELSE IF r.tokens = <<>> THEN IndexError
                      ELSE IF r.tokens[1].tag # ")" THEN AssertionError
                      ELSE Return(r.ast, Slice1(r.tokens))
             ELSE Unexpected(token)

\* term_loop that also folds "+" and "-": one precedence level for all four.
term_loop_flat(node, toks) ==
    IF toks = <<>> THEN IndexError
    ELSE IF toks[1].tag \in {"*", "/", "+", "-"}
    THEN LET tag == toks[1].tag
             r == parse_factor(Slice1(toks))
         IN  IF ~r.ok THEN r
             ELSE term_loop([tag |-> tag, left |-> node, right |-> r.ast], r.tokens)
    ELSE Return(node, toks)

\* term_loop whose right operand is a whole term: the fold nests to the right.
term_loop_right(node, toks) ==
    IF toks = <<>> THEN IndexError
    ELSE IF toks[1].tag \in {"*", "/"}
    THEN LET tag == toks[1].tag
             r == parse_term(Slice1(toks))
         IN  IF ~r.ok THEN r
             ELSE term_loop([tag |-> tag, left |-> node, right |-> r.ast], r.tokens)
    ELSE Return(node, toks)

\* The while loop of parse_term, from the node built so far.
term_loop(node, toks) ==
    IF toks = <<>> THEN IndexError
    ELSE IF toks[1].tag \in {"*", "/"}
    THEN LET tag == toks[1].tag
             r == parse_factor(Slice1(toks))
         IN  IF ~r.ok THEN r
             ELSE term_loop([tag |-> tag, left |-> node, right |-> r.ast], r.tokens)
    ELSE Return(node, toks)

parse_term(toks) ==
    LET r == parse_factor(toks)
    IN  IF ~r.ok THEN r ELSE term_loop(r.ast, r.tokens)

\* The while loop of parse_expression, from the node built so far.
expression_loop(node, toks) ==
    IF toks = <<>> THEN IndexError
    ELSE IF toks[1].tag \in {"+", "-"}
    THEN LET tag == toks[1].tag
             r == parse_term(Slice1(toks))
         IN  IF ~r.ok THEN r
             ELSE expression_loop([tag |-> tag, left |-> node, right |-> r.ast],
                                  r.tokens)
    ELSE Return(node, toks)

parse_expression(toks) ==
    LET r == parse_term(toks)
    IN  IF ~r.ok THEN r ELSE expression_loop(r.ast, r.tokens)

parse_statement(toks) ==
    IF toks = <<>> THEN IndexError
    ELSE IF toks[1].tag = "print"
    THEN LET r == parse_expression(Slice1(toks))
         IN  IF ~r.ok THEN r
             ELSE Return([tag |-> "print", value |-> r.ast], r.tokens)
    ELSE parse_expression(toks)

\* parse with a check that the statement consumed everything up to the end marker.
parse_strict(toks) ==
    LET r == parse_statement(toks)
    IN  IF ~r.ok THEN r
        ELSE IF r.tokens = <<>> THEN IndexError
        ELSE IF r.tokens[1].tag # NoneTag THEN Unexpected(r.tokens[1])
        ELSE [ok |-> TRUE, ast |-> r.ast]

\* parse returns the AST alone.
parse(toks) ==
    LET r == parse_statement(toks)
    IN  IF ~r.ok THEN r ELSE [ok |-> TRUE, ast |-> r.ast]

----------------------------------------------------------------------------
(* Input sets: every concatenation of at most n pieces.                    *)

RECURSIVE Concatenations(_, _)
Concatenations(Pieces, n) ==
    IF n = 0 THEN {<<>>}
    ELSE LET S == Concatenations(Pieces, n - 1)
         IN  S \cup {s \o p : s \in S, p \in Pieces}

LexPieces ==
    { <<"p", "r", "i", "n", "t">>, <<"e">>, <<"_">>, <<"1">>, <<".">>, <<"+">>,
      <<" ">>, <<"\n">>, <<"$">> }

ParsePieces ==
    { <<"p", "r", "i", "n", "t">>, <<"x">>, <<"1">>, <<"+">>, <<"*">>,
      <<"(">>, <<")">>, <<" ">> }

ArithPieces == { <<"1">>, <<"2">>, <<"+">>, <<"-">>, <<"*">>, <<"/">> }

----------------------------------------------------------------------------
(* The state machine: a text is tokenized, then one function of the parser *)
(* is applied to the token list, as the functions' unit tests do.          *)

Unbound == [type |-> "unbound"]

InitOn(Inputs) ==
    /\ characters \in Inputs
    /\ pc = "start"
    /\ position = 0
    /\ tokens = <<>>
    /\ raised = ""
    /\ fn = ""
    /\ out = Unbound

\* tokens = tokenize(characters); a raise leaves tokens unassigned.
Tokenize ==
    /\ pc = "start"
    /\ LET r == tokenize(characters)
       IN  /\ pc' = IF r.ok THEN "tokenized" ELSE "raised"
           /\ position' = r.position
           /\ tokens' = r.tokens
           /\ raised' = r.raised
    /\ UNCHANGED <<characters, fn, out>>

Apply(name, result) ==
    /\ pc = "tokenized"
    /\ pc' = "done"
    /\ fn' = name
    /\ out' = result
    /\ UNCHANGED <<characters, position, tokens, raised>>

ParseFactor == Apply("parse_factor", parse_factor(tokens))

ParseTerm == Apply("parse_term", parse_term(tokens))

ParseExpression == Apply("parse_expression", parse_expression(tokens))

ParseStatement == Apply("parse_statement", parse_statement(tokens))

Parse == Apply("parse", parse(tokens))

Next ==
    \/ Tokenize
    \/ ParseFactor
    \/ ParseTerm
    \/ ParseExpression
    \/ ParseStatement
    \/ Parse

Init == InitOn(Concatenations(LexPieces, MaxLexPieces))

InitParse == InitOn(Concatenations(ParsePieces, MaxParsePieces))

InitArith == InitOn(Concatenations(ArithPieces, MaxArithPieces))

Spec == Init /\ [][Next]_vars

SpecParse == InitParse /\ [][Next]_vars

SpecArith == InitArith /\ [][Next]_vars

----------------------------------------------------------------------------
(* Properties of the tokenizer, checked under Spec.                        *)

Str(text) == characters = text

Tokenized == pc \in {"tokenized", "done"}

\* The end of the first rule other than the catch-all that matches at p.
LegalEnd(s, p) ==
    LET hits == {i \in 1..(Len(patterns) - 1) : Match(patterns[i], s, p) # NoMatch}
    IN  IF hits = {} THEN NoMatch
        ELSE Match(patterns[CHOOSE k \in hits : \A j \in hits : k <= j], s, p)

\* The positions a left-to-right scan reaches, lexeme by lexeme.
RECURSIVE Reached(_, _)
Reached(s, p) ==
    {p} \cup (IF p < Len(s) /\ LegalEnd(s, p) # NoMatch
              THEN Reached(s, LegalEnd(s, p))
              ELSE {})

Unmatched(s) == {p \in Reached(s, 0) : p < Len(s) /\ LegalEnd(s, p) = NoMatch}

\* C6: tokenize raises "Syntax error" exactly when the scan reaches a position
\* where no rule before the catch-all matches; it stops at that position (the
\* first one) and no token list is returned.
C6_LexicalError ==
    pc # "start" =>
        /\ (pc = "raised") <=> (Unmatched(characters) # {})
        /\ pc = "raised" =>
              /\ raised = "Syntax error"
              /\ position \in Unmatched(characters)
              /\ \A q \in Unmatched(characters) : position <= q
              /\ tokens = <<>>
        /\ Str(<<"$", "1", "+">>) => pc = "raised" /\ position = 0
        /\ Str(<<"1", "+", ".">>) => pc = "raised" /\ position = 2

\* Witness of C6: an illegal character after two matched lexemes.
C6_Witness ==
    /\ Str(<<"1", "+", "$", "1">>)
    /\ pc = "raised"
    /\ position = 2
    /\ tokens = <<>>

\* C7: every token list returned by tokenize ends with one end marker (tag None,
\* value None, position = length of the input) and holds no other token of tag None.
C7_EndMarker ==
    Tokenized =>
        /\ Len(tokens) >= 1
        /\ tokens[Len(tokens)] =
               [tag |-> NoneTag, value |-> None, position |-> Len(characters)]
        /\ \A i \in 1..(Len(tokens) - 1) : tokens[i].tag # NoneTag
        /\ (\A i \in 1..Len(characters) : characters[i] \in Whitespace)
               => Len(tokens) = 1

\* Witness of C7: a whitespace-only input, whose list is the end marker alone.
C7_Witness ==
    /\ Str(<<" ", "\n">>)
    /\ pc = "tokenized"
    /\ tokens = <<[tag |-> NoneTag, value |-> None, position |-> 2]>>

\* The end of the text a token was matched from, found again in the input.
MatchedEnd(tok) ==
    IF tok.tag = NoneTag THEN tok.position
    ELSE IF tok.tag = "number" THEN MatchNumber(characters, tok.position)
    ELSE tok.position + Len(tok.value.s)

\* A token's value is what the input holds at the token's position.
StartsAt(tok) ==
    /\ 0 <= tok.position
    /\ tok.position < MatchedEnd(tok)
    /\ MatchedEnd(tok) <= Len(characters)
    /\ LET text == SubSeq(characters, tok.position + 1, MatchedEnd(tok))
       IN  IF tok.tag = "number"
           THEN tok.value = TokenValue("number", text)
           ELSE tok.value = PyStr(text)

\* C8: no whitespace token is emitted, every token's position is the offset in
\* the input where its text starts, positions strictly increase, and only
\* whitespace lies between one token's text and the next token.
C8_WhitespaceAndPositions ==
    Tokenized =>
        /\ \A i \in 1..Len(tokens) : tokens[i].tag # "whitespace"
        /\ \A i \in 1..(Len(tokens) - 1) : StartsAt(tokens[i])
        /\ \A i \in 1..(Len(tokens) - 1) :
              /\ tokens[i].position < tokens[i + 1].position
              /\ MatchedEnd(tokens[i]) <= tokens[i + 1].position
              /\ \A q \in MatchedEnd(tokens[i])..(tokens[i + 1].position - 1) :
                    characters[q + 1] \in Whitespace

\* Witness of C8: "1 + 1"-like input with whitespace between and after tokens.
C8_Witness ==
    /\ Str(<<"1", " ", "+", "\n">>)
    /\ pc = "tokenized"
    /\ Len(tokens) = 3
    /\ tokens[1].position = 0
    /\ tokens[2].position = 2
    /\ tokens[3].position = 4

\* The strings of the identifier pattern, by their characters.
IsIdentifierText(text) ==
    /\ Len(text) >= 1
    /\ text[1] \in IdentStart
    /\ \A i \in 2..Len(text) : text[i] \in IdentPart

\* C9: an identifier-shaped text other than "print" gives one identifier token
\* at position 0 whose value is the whole text, then the end marker.
C9_IdentifierTokens ==
    (pc # "start" /\ IsIdentifierText(characters)
        /\ characters # <<"p", "r", "i", "n", "t">>) =>
        /\ pc # "raised"
        /\ tokens = << [tag |-> "identifier", position |-> 0,
                        value |-> PyStr(characters)],
                       [tag |-> NoneTag, value |-> None,
                        position |-> Len(characters)] >>

----------------------------------------------------------------------------
(* Properties of the parser, checked under SpecArith and SpecParse.        *)

Number(n) == [tag |-> "number", value |-> PyInt(n)]

BinaryOp(tag, left, right) == [tag |-> tag, left |-> left, right |-> right]

RECURSIVE NodeTags(_)
NodeTags(ast) ==
    IF ast.tag = "number" THEN {"number"}
    ELSE IF ast.tag = "print" THEN {"print"} \cup NodeTags(ast.value)
    ELSE {ast.tag} \cup NodeTags(ast.left) \cup NodeTags(ast.right)

\* No node tagged "*" or "/" has a descendant tagged "+" or "-".
RECURSIVE TighterBelow(_)
TighterBelow(ast) ==
    IF ast.tag = "number" THEN TRUE
    ELSE IF ast.tag = "print" THEN TighterBelow(ast.value)
    ELSE /\ ast.tag \in {"*", "/"} =>
               (NodeTags(ast.left) \cup NodeTags(ast.right)) \cap {"+", "-"} = {}
         /\ TighterBelow(ast.left)
         /\ TighterBelow(ast.right)

NoParenthesis == \A i \in 1..Len(tokens) : tokens[i].tag \notin {"(", ")"}

\* C1: in the AST of a parenthesis-free input that parse accepts, no "*" or "/"
\* node has a "+" or "-" descendant; 1+2*2 gives +(1, *(2, 2)).
C1_Precedence ==
    (pc = "done" /\ fn = "parse" /\ out.ok /\ NoParenthesis) =>
        /\ TighterBelow(out.ast)
        /\ Str(<<"1", "+", "2", "*", "2">>) =>
              out.ast = BinaryOp("+", Number(1), BinaryOp("*", Number(2), Number(2)))

\* Witness of C1: a sum whose right operand is a product, as in 1+2*2.
C1_Witness ==
    /\ pc = "done"
    /\ fn = "parse"
    /\ out.ok
    /\ NoParenthesis
    /\ out.ast.tag = "+"
    /\ out.ast.right.tag = "*"

\* The operator tokens of the list.
OperatorTags == {tokens[i].tag : i \in 1..Len(tokens)} \cap {"+", "-", "*", "/"}

OneLevel == OperatorTags \subseteq {"*", "/"} \/ OperatorTags \subseteq {"+", "-"}

\* n1 op1 n2 ... nk followed by the end marker: 2k tokens.
IsChain ==
    /\ Len(tokens) % 2 = 0
    /\ \A i \in 1..(Len(tokens) - 1) :
          IF i % 2 = 1 THEN tokens[i].tag = "number"
          ELSE tokens[i].tag \in {"+", "-", "*", "/"}
    /\ tokens[Len(tokens)].tag = NoneTag

\* The left-nested fold of the first k operands of the chain.
RECURSIVE LeftFold(_)
LeftFold(k) ==
    LET operand == [tag |-> "number", value |-> tokens[2 * k - 1].value]
    IN  IF k = 1 THEN operand
        ELSE BinaryOp(tokens[2 * k - 2].tag, LeftFold(k - 1), operand)

\* C2: when all operators of an accepted parenthesis-free input are of one
\* precedence level, the AST is the left-nested fold of the operands.
C2_LeftAssociative ==
    (pc = "done" /\ fn = "parse" /\ out.ok /\ NoParenthesis /\ OneLevel) =>
        /\ IsChain
        /\ out.ast = LeftFold(Len(tokens) \div 2)
        /\ Str(<<"2", "*", "1", "/", "2">>) =>
              out.ast = BinaryOp("/", BinaryOp("*", Number(2), Number(1)), Number(2))

\* Witness of C2: three operands at the multiplicative level.
C2_Witness ==
    /\ pc = "done"
    /\ fn = "parse"
    /\ out.ok
    /\ OneLevel
    /\ Len(tokens) = 6
    /\ out.ast.tag = "/"
    /\ out.ast.left.tag = "*"
    /\ out.ast.right.tag = "number"

\* C3: whenever parse_statement returns (ast, rest) on the token list, parse
\* returns exactly ast, whatever rest holds before the end marker.
C3_TrailingIgnored ==
    (pc = "done" /\ fn = "parse") =>
        LET r == parse_statement(tokens)
        IN  /\ r.ok => out = [ok |-> TRUE, ast |-> r.ast]
            /\ Str(<<"1", " ", "1">>) => out = [ok |-> TRUE, ast |-> Number(1)]
            /\ Str(<<"1", ")">>) => out = [ok |-> TRUE, ast |-> Number(1)]

\* Witness of C3: parse returned although tokens were left before the end marker.
C3_Witness ==
    /\ pc = "done"
    /\ fn = "parse"
    /\ out.ok
    /\ Len(parse_statement(tokens).tokens) > 1
    /\ parse_statement(tokens).tokens[1].tag \in {"number", "identifier", ")", "print"}

\* The operators a grammar function folds outside any parenthesis.
TopOperators(name) ==
    IF name = "parse_factor" THEN {}
    ELSE IF name = "parse_term" THEN {"*", "/"}
    ELSE {"+", "-", "*", "/"}

\* A left-to-right walk over the token list with a parenthesis depth d: in state
\* "factor" a factor must start at token i, in state "operator" one has ended.
\* The walk ends at the token where the grammar function stops or fails.
RECURSIVE Walk(_, _, _, _)
Walk(i, d, state, top) ==
    LET tag == tokens[i].tag
    IN  IF state = "factor"
        THEN IF tag = "number" THEN Walk(i + 1, d, "operator", top)
             ELSE IF tag = "(" THEN Walk(i + 1, d + 1, "factor", top)
             ELSE [end |-> "no factor", at |-> i]
        ELSE IF tag \in (IF d > 0 THEN {"+", "-", "*", "/"} ELSE top)
             THEN Walk(i + 1, d, "factor", top)
             ELSE IF d = 0 THEN [end |-> "returns", at |-> i]
             ELSE IF tag = ")" THEN Walk(i + 1, d - 1, "operator", top)
             ELSE [end |-> "no closing parenthesis", at |-> i]

WalkOf(name) ==
    IF name \in {"parse_statement", "parse"} /\ tokens[1].tag = "print"
    THEN Walk(2, 0, "factor", TopOperators(name))
    ELSE Walk(1, 0, "factor", TopOperators(name))

\* C4 as stated: when the token after a parenthesized expression is not ")",
\* the failure carries that token's tag and position.
C4_MissingParenthesis ==
    (pc = "done" /\ WalkOf(fn).end = "no closing parenthesis") =>
        out = Unexpected(tokens[WalkOf(fn).at])

Suffix(k) == SubSeq(tokens, k, Len(tokens))

IsSuffix(rest) ==
    \E k \in 1..Len(tokens) : rest = Suffix(k)

ResultOf(name, toks) ==
    CASE name = "parse_factor" -> parse_factor(toks)
      [] name = "parse_term" -> parse_term(toks)
      [] name = "parse_expression" -> parse_expression(toks)
      [] name = "parse_statement" -> parse_statement(toks)
      [] name = "parse" -> parse(toks)

\* A grammar function's result on a list ending with the end marker: a rest
\* that is a non-empty suffix still ending with the end marker, or one of the
\* two explicit failures.
WithinTokens(name, r) ==
    IF r.ok
    THEN name # "parse" =>
            /\ r.tokens # <<>>
            /\ IsSuffix(r.tokens)
            /\ r.tokens[Len(r.tokens)].tag = NoneTag
    ELSE r.raised \in {"Exception", "AssertionError"}

\* C10: on the output of tokenize no grammar function indexes an empty list or
\* consumes the end marker: applied to the list or to any non-empty suffix of
\* it (the lists the recursive calls receive), each returns a non-empty suffix
\* ending with the end marker or fails with one of the two explicit errors.
C10_NoReadPastEnd ==
    pc = "done" =>
        /\ WithinTokens(fn, out)
        /\ \A k \in 1..Len(tokens) :
              \A name \in {"parse_factor", "parse_term", "parse_expression",
                           "parse_statement"} :
                 WithinTokens(name, ResultOf(name, Suffix(k)))

\* Witness of C10: a parenthesized factor parsed up to the end marker.
C10_Witness ==
    /\ Str(<<"(", "1", ")">>)
    /\ pc = "done"
    /\ fn = "parse_factor"
    /\ out.ok
    /\ out.tokens = <<[tag |-> NoneTag, value |-> None, position |-> 3]>>

====
